---------------------------- MODULE Spec2Model ----------------------------
(***************************************************************************)
(* A model of src/PDF_to_txt.py: the tokenizer, the candidate filter, the  *)
(* word counter, the spelling analysis, the CSV and PDF report emitters    *)
(* and the run-button handler that processes the uploaded documents.       *)
(*                                                                         *)
(* A text is a sequence of characters; a character is a string.  An ASCII  *)
(* character is the one-character string itself; a character outside       *)
(* ASCII is named by its code point ("U+00E9").                            *)
(***************************************************************************)
EXTENDS Integers, Sequences, FiniteSets

VARIABLES
    tok,            \* the argument of a call of is_candidate_word
    cand,           \* what that call returned
    uploaded_files, \* the uploader's files, each [name, text]
    pc,             \* where the script (or the function under check) stands
    spell,          \* the SpellChecker instance
    idx,            \* the batch loop's index (0-based, as enumerate gives it)
    text,           \* the decoded text of the current document
    tokens,         \* tokenize_text(text)
    corrections,    \* the dict of analyze_spelling, in insertion order
    error_count,
    total_words,
    zipf,           \* the archive's entries, each [name, kind, body]
    progress,       \* every value handed to progress.progress, as <<num, den>>
    ui,             \* what the page showed the user, in order
    canvas,         \* make_pdf's canvas c
    y,              \* make_pdf's vertical cursor
    left,           \* the items of corrections make_pdf's loop has yet to draw
    pdf             \* the pages of the document make_pdf saved

vars == <<tok, cand, uploaded_files, pc, spell, idx, text, tokens, corrections,
          error_count, total_words, zipf, progress, ui, canvas, y, left, pdf>>

-----------------------------------------------------------------------------
(* Characters *)

UpperSeq == <<"A","B","C","D","E","F","G","H","I","J","K","L","M",
              "N","O","P","Q","R","S","T","U","V","W","X","Y","Z">>
LowerSeq == <<"a","b","c","d","e","f","g","h","i","j","k","l","m",
              "n","o","p","q","r","s","t","u","v","w","x","y","z">>

AsciiUpper == {UpperSeq[i] : i \in DOMAIN UpperSeq}
AsciiLower == {LowerSeq[i] : i \in DOMAIN LowerSeq}
AsciiLetter == AsciiUpper \cup AsciiLower

\* Letters outside ASCII: e-acute (lower case), E-acute (upper case) and the
\* Hangul syllable HAN (a letter with no case).
OtherLower == {"U+00E9"}
OtherUpper == {"U+00C9"}
OtherUncased == {"U+D55C"}

\* str.split() with no argument splits on runs of these.
Whitespace == {" ", "\t", "\n"}

\* re's class [A-Za-z]
IsAsciiLetter(c) == c \in AsciiLetter

\* what str.isalpha tests of each character: any Unicode letter
IsAlphaChar(c) == c \in AsciiLetter \cup OtherLower \cup OtherUpper \cup OtherUncased

IsUpperChar(c) == c \in AsciiUpper \cup OtherUpper
IsLowerChar(c) == c \in AsciiLower \cup OtherLower

\* str.lower of one character
LowerChar(c) ==
    IF c \in AsciiUpper
    THEN LowerSeq[CHOOSE i \in DOMAIN UpperSeq : UpperSeq[i] = c]
    ELSE IF c = "U+00C9" THEN "U+00E9" ELSE c

\* str.lower
lower(s) == [i \in DOMAIN s |-> LowerChar(s[i])]

\* str.isalpha: not empty and every character a letter
isalpha(s) == Len(s) > 0 /\ \A i \in DOMAIN s : IsAlphaChar(s[i])

\* str.isupper: at least one cased character and no lower-case one
isupper(s) ==
    /\ \E i \in DOMAIN s : IsUpperChar(s[i])
    /\ \A i \in DOMAIN s : ~IsLowerChar(s[i])

-----------------------------------------------------------------------------
(* tokenize_text *)

\* text.split(): the maximal runs of non-whitespace characters, left to right.
\* cur is the piece being read.
RECURSIVE SplitFrom(_, _, _)
SplitFrom(s, i, cur) ==
    IF i > Len(s)
    THEN IF cur = <<>> THEN <<>> ELSE <<cur>>
    ELSE IF s[i] \in Whitespace
         THEN IF cur = <<>>
              THEN SplitFrom(s, i + 1, <<>>)
              ELSE <<cur>> \o SplitFrom(s, i + 1, <<>>)
         ELSE SplitFrom(s, i + 1, Append(cur, s[i]))

split(s) == SplitFrom(s, 1, <<>>)

\* re.sub(r"[^A-Za-z]", "", t)
RECURSIVE StripNonLetters(_)
StripNonLetters(t) ==
    IF t = <<>> THEN <<>>
    ELSE IF IsAsciiLetter(Head(t))
         THEN <<Head(t)>> \o StripNonLetters(Tail(t))
         ELSE StripNonLetters(Tail(t))

\* tokenize_text without its `if clean` test.
TokensOfKeepEmpty(raw_tokens) ==
    [i \in DOMAIN raw_tokens |->
        [surface |-> raw_tokens[i], clean |-> StripNonLetters(raw_tokens[i])]]

RECURSIVE TokensOf(_)
TokensOf(raw_tokens) ==
    IF raw_tokens = <<>> THEN <<>>
    ELSE LET t == Head(raw_tokens)
             clean == StripNonLetters(t)
         IN  IF clean # <<>>
             THEN <<[surface |-> t, clean |-> clean]>> \o TokensOf(Tail(raw_tokens))
             ELSE TokensOf(Tail(raw_tokens))

tokenize_text(s) == TokensOf(split(s))

-----------------------------------------------------------------------------
(* is_candidate_word, count_real_words *)

MinLen == 2

is_candidate_word(t) == isalpha(t) /\ Len(t) > MinLen /\ ~isupper(t)

\* The end (exclusive) of the greedy match of [A-Za-z]+ that starts at i.
RECURSIVE MatchEnd(_, _)
MatchEnd(s, i) ==
    IF i <= Len(s) /\ IsAsciiLetter(s[i]) THEN MatchEnd(s, i + 1) ELSE i

\* re.findall(r"[A-Za-z]+", s): scan from i; at a letter take the greedy match
\* and go on after it, otherwise move one character on.
RECURSIVE FindAllFrom(_, _)
FindAllFrom(s, i) ==
    IF i > Len(s) THEN <<>>
    ELSE IF IsAsciiLetter(s[i])
         THEN LET j == MatchEnd(s, i)
              IN  <<SubSeq(s, i, j - 1)>> \o FindAllFrom(s, j)
         ELSE FindAllFrom(s, i + 1)

findall(s) == FindAllFrom(s, 1)

\* A word count taken from the whitespace-delimited pieces.
CountSplitPieces(s) == Len(tokenize_text(s))

count_real_words(s) == Len(findall(s))

-----------------------------------------------------------------------------
(* The dictionary oracle (spellchecker.SpellChecker) *)

teh   == <<"t", "e", "h">>
the   == <<"t", "h", "e">>
qick  == <<"q", "i", "c", "k">>
quick == <<"q", "u", "i", "c", "k">>

\* What correction() returns: a string, or None (some = FALSE).
NoSuggestion == [some |-> FALSE, val |-> <<>>]
Suggestion(s) == [some |-> TRUE, val |-> s]

\* The oracles the model draws from.  An oracle decides "teh" and "qick" by
\* its own word list and every other word by `strict`; it corrects "qick" to
\* "quick", "teh" to `fix` (a word, the empty string or nothing) and has no
\* suggestion for any other word.
Oracles ==
    [unknown : SUBSET {teh, qick},
     strict  : BOOLEAN,
     fix     : {NoSuggestion, Suggestion(<<>>), Suggestion(the)}]

\* before SpellChecker() has run
NoSpell == [built |-> FALSE]

\* spell_checker.unknown(words): the words of `words` the dictionary lacks
unknown(o, words) ==
    {w \in words : IF w \in {teh, qick} THEN w \in o.unknown ELSE o.strict}

\* spell_checker.correction(word)
correction(o, w) ==
    IF w = teh THEN o.fix
    ELSE IF w = qick THEN Suggestion(quick)
    ELSE NoSuggestion

-----------------------------------------------------------------------------
(* analyze_spelling *)

\* A dict is the sequence of its <<key, value>> items in insertion order.
Keys(d) == {d[i][1] : i \in DOMAIN d}

\* An assignment that moves a key the dict holds to the end.
DictSetMovesToEnd(d, k, v) ==
    Append(SelectSeq(d, LAMBDA item : item[1] # k), <<k, v>>)

\* d[k] = v: a key the dict holds keeps its place and takes the new value, a
\* new key goes to the end.
DictSet(d, k, v) ==
    IF k \in Keys(d)
    THEN [i \in DOMAIN d |-> IF d[i][1] = k THEN <<k, v>> ELSE d[i]]
    ELSE Append(d, <<k, v>>)

\* A fallback taken only for None: an empty suggestion is stored as it is.
OrElseIsNone(a, b) == IF a.some THEN a.val ELSE b

\* Python's `a or b` for a: Optional[str]: None and "" are both falsy.
OrElse(a, b) == IF a.some /\ a.val # <<>> THEN a.val ELSE b

\* A count of the distinct flagged surface forms, not of the occurrences.
FlagOncePerKey(acc, surface, o, lw) ==
    [corrections |-> DictSet(acc.corrections, surface, OrElse(correction(o, lw), surface)),
     errors      |-> IF surface \in Keys(acc.corrections)
                     THEN acc.errors ELSE acc.errors + 1]

\* Lines 57-58: the flagged occurrence is stored and counted.
Flag(acc, surface, o, lw) ==
    [corrections |-> DictSet(acc.corrections, surface, OrElse(correction(o, lw), surface)),
     errors      |-> acc.errors + 1]

\* The loop of lines 53-58 over the tokens still to visit.
RECURSIVE AnalyzeFrom(_, _, _)
AnalyzeFrom(toks, o, acc) ==
    IF toks = <<>> THEN acc
    ELSE LET surface == Head(toks).surface
             clean   == Head(toks).clean
         IN  IF is_candidate_word(clean)
             THEN LET lw == lower(clean)
                  IN  IF lw \in unknown(o, {lw})
                      THEN AnalyzeFrom(Tail(toks), o, Flag(acc, surface, o, lw))
                      ELSE AnalyzeFrom(Tail(toks), o, acc)
             ELSE AnalyzeFrom(Tail(toks), o, acc)

analyze_spelling(s, o) ==
    AnalyzeFrom(tokenize_text(s), o, [corrections |-> <<>>, errors |-> 0])

\* Whether analyze_spelling(s, o) asks the oracle anything.
QueriesOracle(s) ==
    \E i \in DOMAIN tokenize_text(s) : is_candidate_word(tokenize_text(s)[i].clean)

-----------------------------------------------------------------------------
(* make_pdf *)

\* Lengths are kept in 1/127 of a point, in which the A4 page height
\* (297 mm = 297 * 72 / 25.4 pt = 841.8897... pt) is a whole number.
Pt(n) == n * 127

height == (297 * 72 * 1270) \div 254     \* width, height = A4
margin == Pt(50)

ListFont == <<"Helvetica", 12>>

\* A page opens with the canvas state forgotten: whatever font the page
\* before had set no longer counts as set.
NoFontSet == <<"(not set)", 0>>

\* The canvas: the font in effect, the operations on the open page, and the
\* pages closed so far.  Every operation is recorded as
\* [op, y, font, part, text]; `part` names the statement that drew it.
NewCanvas == [font |-> NoFontSet, page |-> <<>>, pages |-> <<>>]

setFont(c, name, size) ==
    [c EXCEPT !.font = <<name, size>>,
              !.page = Append(@, [op |-> "setFont", y |-> 0, font |-> <<name, size>>,
                                  part |-> "", text |-> <<>>])]

drawString(c, yy, part, txt) ==
    [c EXCEPT !.page = Append(@, [op |-> "drawString", y |-> yy, font |-> c.font,
                                  part |-> part, text |-> txt])]

line(c, yy) ==
    [c EXCEPT !.page = Append(@, [op |-> "line", y |-> yy, font |-> c.font,
                                  part |-> "divider", text |-> <<>>])]

showPage(c) ==
    [c EXCEPT !.pages = Append(@, c.page), !.page = <<>>, !.font = NoFontSet]

\* f"{wrong:<20}": wrong, padded with spaces on the right up to 20 characters
LJust20(s) == s \o [i \in 1..(IF Len(s) < 20 THEN 20 - Len(s) ELSE 0) |-> " "]

\* f"{wrong:<20} -> {correct}" (the arrow is U+2192)
FormatEntry(wrong, correct) == LJust20(wrong) \o <<" ", "U+2192", " ">> \o correct

\* Lines 74-109: the title, the date, the summary and the list's heading.
\* The result is the canvas and the cursor y where the list starts.
DrawHeader(total_words_, error_words) ==
    LET y0 == height - margin
        c1 == drawString(setFont(NewCanvas, "Helvetica-Bold", 20), y0, "title", <<>>)
        y1 == y0 - Pt(30)
        c2 == drawString(setFont(c1, "Helvetica", 12), y1, "date", <<>>)
        y2 == y1 - Pt(20)
        c3 == line(c2, y2)
        y3 == y2 - Pt(30)
        c4 == drawString(setFont(c3, "Helvetica-Bold", 14), y3, "summary_title", <<>>)
        y4 == y3 - Pt(25)
        c5 == drawString(setFont(c4, "Helvetica", 12), y4, "total_words", <<total_words_>>)
        y5 == y4 - Pt(20)
        c6 == drawString(c5, y5, "error_words", <<error_words>>)
        y6 == y5 - Pt(35)
        c7 == line(c6, y6)
        y7 == y6 - Pt(30)
        c8 == drawString(setFont(c7, "Helvetica-Bold", 14), y7, "list_title", <<>>)
        y8 == y7 - Pt(25)
    IN  [c |-> setFont(c8, "Helvetica", 12), y |-> y8]

\* A page break taken one line late (y <= 50 in place of y < 70).
BreakLate(st) ==
    IF st.y <= Pt(50)
    THEN [c |-> setFont(showPage(st.c), "Helvetica", 12), y |-> height - margin]
    ELSE st

\* Lines 115-118: the page break before a correction line.
BreakIfLow(st) ==
    IF st.y < Pt(70)
    THEN [c |-> setFont(showPage(st.c), "Helvetica", 12), y |-> height - margin]
    ELSE st

\* Lines 115-121: one turn of the loop over corrections.items().
DrawEntry(st, item) ==
    LET b == BreakIfLow(st)
    IN  [c |-> drawString(b.c, b.y, "entry", FormatEntry(item[1], item[2])),
         y |-> b.y - Pt(20)]

-----------------------------------------------------------------------------
(* The inputs the model draws from *)

MaxTokLen == 3
MaxPieces == 3
MaxEntries == 101
MaxFiles == 2

\* The characters of an argument of is_candidate_word: ASCII letters of both
\* cases, a digit, and letters outside ASCII of each kind.
TokChars == {"a", "B", "1", "U+00E9", "U+00C9", "U+D55C"}

Toks == UNION {[1..n -> TokChars] : n \in 0..MaxTokLen}

\* A text is up to MaxPieces of these pieces, one after the other: misspelled
\* words in two casings, an acronym, a short word, a word with no separator
\* after it, punctuation and a letter outside ASCII.
Pieces ==
    { <<"t", "e", "h", " ">>,
      <<"T", "e", "h", " ">>,
      <<"q", "i", "c", "k", "\t">>,
      <<"U", "S", "A", " ">>,
      <<"o", "k", "\n">>,
      <<"t", "e", "h">>,
      <<"'">>,
      <<"U+00E9">> }

\* A corrections dict of n entries for make_pdf: the i-th key is i letters
\* long (so keys shorter and longer than the 20-character column occur).
EntryDict(n) == [i \in 1..n |-> <<[j \in 1..i |-> "a"], <<"b">>>>]

FileNames == {"a.txt", "b.txt"}

\* The contents of the uploaded files.  "0xFF" is a byte that is no valid
\* UTF-8; every other element is the encoding of the character it names.
\*   ""
\*   "Teh qick teh Teh OK ok"
\*   "qi<0xFF>ck, don't\n42 <U+00E9>"
SampleContents ==
    { <<>>,
      <<"T","e","h"," ","q","i","c","k"," ","t","e","h"," ","T","e","h"," ",
        "O","K"," ","o","k">>,
      <<"q","i","0xFF","c","k",","," ","d","o","n","'","t","\n","4","2"," ","U+00E9">> }

RECURSIVE Concat(_)
Concat(ps) == IF ps = <<>> THEN <<>> ELSE Head(ps) \o Concat(Tail(ps))

Texts == {Concat(ps) : ps \in UNION {[1..n -> Pieces] : n \in 0..MaxPieces}}

-----------------------------------------------------------------------------
(* The functions, each applied to an input drawn from the sets above *)

\* What the variables of the run-button handler hold before it has run.
HandlerIdle ==
    /\ uploaded_files = <<>>
    /\ idx = 0
    /\ zipf = <<>>
    /\ progress = <<>>
    /\ ui = <<>>

FunctionIdle ==
    /\ text = <<>>
    /\ tokens = <<>>
    /\ corrections = <<>>
    /\ error_count = 0
    /\ total_words = 0

WordIdle == tok = <<>> /\ cand = FALSE

PdfIdle ==
    /\ canvas = NewCanvas
    /\ y = 0
    /\ left = <<>>
    /\ pdf = <<>>

handlerVars  == <<uploaded_files, idx, zipf, progress, ui>>
pdfVars      == <<canvas, y, left, pdf>>
functionVars == <<text, tokens, corrections, error_count, total_words>>
wordVars     == <<tok, cand>>

InitWord ==
    /\ pc = "word"
    /\ tok \in Toks
    /\ cand = FALSE
    /\ spell = NoSpell
    /\ PdfIdle
    /\ HandlerIdle
    /\ FunctionIdle

CallIsCandidate ==
    /\ pc = "word"
    /\ cand' = is_candidate_word(tok)
    /\ pc' = "word_done"
    /\ UNCHANGED <<tok, spell, pdfVars, handlerVars, functionVars>>

NextWord == CallIsCandidate

SpecWord == InitWord /\ [][NextWord]_vars

InitText ==
    /\ pc = "text"
    /\ text \in Texts
    /\ spell \in Oracles
    /\ tokens = <<>>
    /\ corrections = <<>>
    /\ error_count = 0
    /\ total_words = 0
    /\ PdfIdle
    /\ HandlerIdle
    /\ WordIdle

CallTokenize ==
    /\ pc = "text"
    /\ tokens' = tokenize_text(text)
    /\ pc' = "tokenized"
    /\ UNCHANGED <<text, spell, corrections, error_count, total_words, pdfVars,
                   handlerVars, wordVars>>

CallAnalyze ==
    /\ pc = "tokenized"
    /\ LET r == analyze_spelling(text, spell)
       IN  /\ corrections' = r.corrections
           /\ error_count' = r.errors
    /\ pc' = "analyzed"
    /\ UNCHANGED <<text, spell, tokens, total_words, pdfVars, handlerVars, wordVars>>

CallCount ==
    /\ pc = "analyzed"
    /\ total_words' = count_real_words(text)
    /\ pc' = "counted"
    /\ UNCHANGED <<text, spell, tokens, corrections, error_count, pdfVars,
                   handlerVars, wordVars>>

NextText == CallTokenize \/ CallAnalyze \/ CallCount

SpecText == InitText /\ [][NextText]_vars

-----------------------------------------------------------------------------
(* make_pdf(corrections, total_words, error_count), a statement at a time *)

InitPdf ==
    /\ pc = "make_pdf"
    /\ \E n \in 0..MaxEntries :
        /\ corrections = EntryDict(n)
        /\ error_count \in {n, n + 1}
        /\ total_words = error_count + 1
    /\ PdfIdle
    /\ text = <<>>
    /\ tokens = <<>>
    /\ spell = NoSpell
    /\ HandlerIdle
    /\ WordIdle

\* Lines 66-110: the canvas is made and everything above the list drawn.
PdfHeader ==
    /\ pc = "make_pdf"
    /\ LET h == DrawHeader(total_words, error_count)
       IN  canvas' = h.c /\ y' = h.y
    /\ left' = corrections
    /\ pdf' = <<>>
    /\ pc' = IF Len(corrections) = 0 THEN "pdf_empty" ELSE "pdf_loop"
    /\ UNCHANGED <<spell, handlerVars, functionVars, wordVars>>

\* Lines 111-112
PdfPlaceholder ==
    /\ pc = "pdf_empty"
    /\ canvas' = drawString(canvas, y, "placeholder", <<>>)
    /\ y' = y - Pt(20)
    /\ pc' = "pdf_save"
    /\ UNCHANGED <<left, pdf, spell, handlerVars, functionVars, wordVars>>

\* Lines 114-121, one item
PdfEntry ==
    /\ pc = "pdf_loop"
    /\ left # <<>>
    /\ LET st == DrawEntry([c |-> canvas, y |-> y], Head(left))
       IN  canvas' = st.c /\ y' = st.y
    /\ left' = Tail(left)
    /\ pc' = IF Tail(left) = <<>> THEN "pdf_save" ELSE "pdf_loop"
    /\ UNCHANGED <<pdf, spell, handlerVars, functionVars, wordVars>>

\* Lines 123-126
PdfSave ==
    /\ pc = "pdf_save"
    /\ canvas' = showPage(canvas)
    /\ pdf' = showPage(canvas).pages
    /\ pc' = "pdf_done"
    /\ UNCHANGED <<y, left, spell, handlerVars, functionVars, wordVars>>

MakePdfStep == PdfHeader \/ PdfPlaceholder \/ PdfEntry \/ PdfSave

NextPdf == MakePdfStep

SpecPdf == InitPdf /\ [][NextPdf]_vars

-----------------------------------------------------------------------------
(* The script from the upload widget on (lines 145-202) *)

\* bytes.decode("utf-8", errors="ignore"): invalid bytes are dropped
decode(bytes) == SelectSeq(bytes, LAMBDA b : b # "0xFF")

\* Lines 176-183: the rows handed to csv.writer, in order.
CsvRows(corrections_, total_words_, error_count_) ==
    <<<<"misspelled word", "suggested correction">>>>
    \o [i \in 1..Len(corrections_) |-> <<corrections_[i][1], corrections_[i][2]>>]
    \o << <<>>,
          <<"total words", total_words_>>,
          <<"error words", error_count_>> >>

\* f"{file.name}_result.csv" and f"{file.name}_result.pdf"
CsvEntryName(name) == <<name, "_result.csv">>
PdfEntryName(name) == <<name, "_result.pdf">>

\* A progress value that lags one document behind.
ProgressLagging(i, n) == <<i, n>>

\* (idx + 1) / len(uploaded_files), kept as <<numerator, denominator>>
ProgressValue(i, n) == <<i + 1, n>>

\* The file the loop is at.
file == uploaded_files[idx + 1]

\* Where the for loop goes when its index becomes i.
LoopAt(i) == IF i < Len(uploaded_files) THEN "read" ELSE "finish"

Init ==
    /\ pc = "idle"
    /\ spell = NoSpell
    /\ HandlerIdle
    /\ FunctionIdle
    /\ PdfIdle
    /\ WordIdle

\* Lines 145-149: the user adds a file to the uploader.
Upload ==
    /\ pc = "idle"
    /\ Len(uploaded_files) < MaxFiles
    /\ \E name \in FileNames, content \in SampleContents :
        uploaded_files' = Append(uploaded_files, [name |-> name, content |-> content])
    /\ UNCHANGED <<pc, spell, idx, zipf, progress, ui, functionVars, pdfVars, wordVars>>

\* A button press that skips the test of line 159 and runs the batch code.
PressRunUnguarded ==
    /\ pc = "idle"
    /\ uploaded_files = <<>>
    /\ pc' = "construct"
    /\ UNCHANGED <<ui, uploaded_files, spell, idx, zipf, progress, functionVars,
                   pdfVars, wordVars>>

\* Lines 158-160: the button is pressed with nothing uploaded.
PressRunEmpty ==
    /\ pc = "idle"
    /\ uploaded_files = <<>>
    /\ ui' = Append(ui, "warning")
    /\ pc' = "end"
    /\ UNCHANGED <<uploaded_files, spell, idx, zipf, progress, functionVars,
                   pdfVars, wordVars>>

\* Lines 151-159: the button is pressed with files uploaded.
PressRun ==
    /\ pc = "idle"
    /\ uploaded_files # <<>>
    /\ ui' = Append(ui, "upload notice")
    /\ pc' = "construct"
    /\ UNCHANGED <<uploaded_files, spell, idx, zipf, progress, functionVars,
                   pdfVars, wordVars>>

\* Lines 162-169: the oracle is built, the archive opened, the bar set to 0.
Construct ==
    /\ pc = "construct"
    /\ spell' \in Oracles
    /\ zipf' = <<>>
    /\ progress' = <<<<0, 1>>>>
    /\ idx' = 0
    /\ pc' = LoopAt(0)
    /\ UNCHANGED <<uploaded_files, ui, functionVars, pdfVars, wordVars>>

\* Line 162 raises: the script ends with the exception shown.
ConstructFails ==
    /\ pc = "construct"
    /\ ui' = Append(ui, "exception")
    /\ pc' = "end"
    /\ UNCHANGED <<uploaded_files, spell, idx, zipf, progress, functionVars,
                   pdfVars, wordVars>>

\* Line 170
Read ==
    /\ pc = "read"
    /\ text' = decode(file.content)
    /\ pc' = "analyze"
    /\ UNCHANGED <<uploaded_files, spell, idx, zipf, progress, ui, tokens,
                   corrections, error_count, total_words, pdfVars, wordVars>>

\* Line 172
Analyze ==
    /\ pc = "analyze"
    /\ tokens' = tokenize_text(text)
    /\ LET r == analyze_spelling(text, spell)
       IN  /\ corrections' = r.corrections
           /\ error_count' = r.errors
    /\ pc' = "count"
    /\ UNCHANGED <<uploaded_files, spell, idx, zipf, progress, ui, text,
                   total_words, pdfVars, wordVars>>

\* An oracle failure that is swallowed: the document is left out and the
\* loop goes on.
AnalyzeFailsSkipped ==
    /\ pc = "analyze"
    /\ QueriesOracle(text)
    /\ ui' = Append(ui, "exception")
    /\ idx' = idx + 1
    /\ pc' = LoopAt(idx + 1)
    /\ UNCHANGED <<uploaded_files, spell, zipf, progress, functionVars,
                   pdfVars, wordVars>>

\* Line 172 raises (the oracle fails at a lookup or a suggestion, so the text
\* has a candidate word): the exception leaves the with block and the script.
AnalyzeFails ==
    /\ pc = "analyze"
    /\ QueriesOracle(text)
    /\ ui' = Append(ui, "exception")
    /\ pc' = "end"
    /\ UNCHANGED <<uploaded_files, spell, idx, zipf, progress, functionVars,
                   pdfVars, wordVars>>

\* Line 173
Count ==
    /\ pc = "count"
    /\ total_words' = count_real_words(text)
    /\ pc' = "csv"
    /\ UNCHANGED <<uploaded_files, spell, idx, zipf, progress, ui, text, tokens,
                   corrections, error_count, pdfVars, wordVars>>

\* Lines 176-185; line 188 then calls make_pdf.
WriteCsv ==
    /\ pc = "csv"
    /\ zipf' = Append(zipf, [name |-> CsvEntryName(file.name),
                             body |-> CsvRows(corrections, total_words, error_count)])
    /\ pc' = "make_pdf"
    /\ UNCHANGED <<uploaded_files, spell, idx, progress, ui, functionVars,
                   pdfVars, wordVars>>

\* Line 189, once make_pdf has returned
WritePdf ==
    /\ pc = "pdf_done"
    /\ zipf' = Append(zipf, [name |-> PdfEntryName(file.name), body |-> pdf])
    /\ pc' = "progress"
    /\ UNCHANGED <<uploaded_files, spell, idx, progress, ui, functionVars,
                   pdfVars, wordVars>>

\* Line 191, and the loop's next turn
Progress ==
    /\ pc = "progress"
    /\ progress' = Append(progress, ProgressValue(idx, Len(uploaded_files)))
    /\ idx' = idx + 1
    /\ pc' = LoopAt(idx + 1)
    /\ UNCHANGED <<uploaded_files, spell, zipf, ui, functionVars, pdfVars, wordVars>>

\* Lines 193-202
Finish ==
    /\ pc = "finish"
    /\ ui' = ui \o <<"success", "download">>
    /\ pc' = "end"
    /\ UNCHANGED <<uploaded_files, spell, idx, zipf, progress, functionVars,
                   pdfVars, wordVars>>

Next ==
    \/ Upload
    \/ PressRunEmpty
    \/ PressRun
    \/ Construct
    \/ ConstructFails
    \/ Read
    \/ Analyze
    \/ AnalyzeFails
    \/ Count
    \/ WriteCsv
    \/ MakePdfStep
    \/ WritePdf
    \/ Progress
    \/ Finish

Spec == Init /\ [][Next]_vars

-----------------------------------------------------------------------------
(* Properties of the functions *)

\* The places of `tokens` that analyze_spelling flags under the oracle `spell`.
Flagged ==
    {i \in DOMAIN tokens :
        /\ is_candidate_word(tokens[i].clean)
        /\ lower(tokens[i].clean) \in unknown(spell, {lower(tokens[i].clean)})}

\* C1: analyze_spelling returns as error_count the number of token occurrences
\* whose normalized form is a candidate and whose lower-cased normalized form
\* the oracle reports unknown, and as the keys of corrections exactly the
\* distinct surface forms of those occurrences (each key once); so every key
\* normalizes to a candidate and error_count >= len(corrections).
C1_ErrorCountAndKeys ==
    pc \in {"analyzed", "counted"} =>
        /\ error_count = Cardinality(Flagged)
        /\ Keys(corrections) = {tokens[i].surface : i \in Flagged}
        /\ Cardinality(Keys(corrections)) = Len(corrections)
        /\ \A k \in Keys(corrections) : is_candidate_word(StripNonLetters(k))
        /\ error_count >= Len(corrections)

\* "Teh" and "teh" are two keys, and an occurrence of a key already stored is
\* counted again: three flagged occurrences, two keys.
C1_Witness ==
    /\ pc = "analyzed"
    /\ Keys(corrections) = {<<"T", "e", "h">>, teh}
    /\ error_count = 3

\* C2: every value of corrections is a non-empty string: the oracle's
\* suggestion for the lower-cased normalized form of the key when it gives one,
\* and the key itself (the surface form) when it gives none.
C2_ValuesNeverEmpty ==
    pc \in {"analyzed", "counted"} =>
        \A i \in DOMAIN corrections :
            LET k   == corrections[i][1]
                v   == corrections[i][2]
                sug == correction(spell, lower(StripNonLetters(k)))
            IN  /\ v # <<>>
                /\ (sug.some /\ sug.val # <<>>) => v = sug.val
                /\ ~sug.some => v = k

\* A flagged "Teh" for which the oracle has no suggestion is stored as "Teh",
\* next to a flagged "qick" stored with its suggestion.
C2_Witness ==
    /\ pc = "analyzed"
    /\ ~spell.fix.some
    /\ \E i, j \in DOMAIN corrections :
        /\ corrections[i] = <<<<"T", "e", "h">>, <<"T", "e", "h">>>>
        /\ corrections[j][2] = quick

\* The places of `text` where a maximal run of ASCII letters starts.
RunStarts ==
    {i \in DOMAIN text :
        IsAsciiLetter(text[i]) /\ (i = 1 \/ ~IsAsciiLetter(text[i - 1]))}

\* C9: count_real_words(text) is the number of maximal runs of ASCII letters
\* of the raw text, whatever their length or case and however tokenize_text
\* cuts the text.
C9_CountsMaximalRuns ==
    pc = "counted" => total_words = Cardinality(RunStarts)

\* One token with a non-letter inside counts as two words.
C9_Witness ==
    /\ pc = "counted"
    /\ Len(tokens) = 1
    /\ total_words = 2

\* C10: 0 <= len(corrections) <= error_count <= number of tokens <=
\* count_real_words(text).
C10_CountsOrdered ==
    pc = "counted" =>
        /\ 0 <= Len(corrections)
        /\ Len(corrections) <= error_count
        /\ error_count <= Len(tokens)
        /\ Len(tokens) <= total_words

\* Every word flagged, one of them twice: the last two bounds are met with
\* equality and the first is strict.
C10_Witness ==
    /\ pc = "counted"
    /\ 0 < Len(corrections)
    /\ Len(corrections) < error_count
    /\ error_count = Len(tokens)
    /\ Len(tokens) = total_words

\* C3: is_candidate_word(tok) holds exactly when tok is not empty and made of
\* ASCII letters only, is longer than 2 and is not fully upper-case.
C3_CandidateIffAsciiRule ==
    pc = "word_done" =>
        (cand <=> /\ Len(tok) > 0
                  /\ \A i \in DOMAIN tok : IsAsciiLetter(tok[i])
                  /\ Len(tok) > 2
                  /\ ~(\A i \in DOMAIN tok : tok[i] \in AsciiUpper))

-----------------------------------------------------------------------------
(* Properties of make_pdf *)

IsEntry(o) == o.op = "drawString" /\ o.part = "entry"

\* The correction lines drawn on page p, in drawing order.
EntriesOn(p) == SelectSeq(pdf[p], IsEntry)

RECURSIVE EntriesFrom(_)
EntriesFrom(p) == IF p > Len(pdf) THEN <<>> ELSE EntriesOn(p) \o EntriesFrom(p + 1)

Min(a, b) == IF a < b THEN a ELSE b

\* C5: every correction line is drawn at a y with 70 <= y <= height - 50, in
\* mapping order, in Helvetica 12 (set again at the top of every later page),
\* each line 20 below the one before it on its page; the first page holds 26
\* lines and every later page 37, so there is 1 page for n <= 26 and
\* 1 + ceil((n - 26) / 37) otherwise; with n = 0 the list is the one
\* placeholder line on the only page.
C5_Pagination ==
    pc = "pdf_done" =>
        LET n == Len(corrections)
        IN  /\ Len(pdf) = IF n <= 26 THEN 1 ELSE 1 + ((n - 26) + 36) \div 37
            /\ \A p \in DOMAIN pdf :
                LET es == EntriesOn(p)
                IN  /\ Len(es) = IF p = 1 THEN Min(n, 26)
                                 ELSE Min(37, n - 26 - 37 * (p - 2))
                    /\ \A k \in DOMAIN es :
                        /\ Pt(70) <= es[k].y
                        /\ es[k].y <= height - margin
                        /\ es[k].font = ListFont
                        /\ k > 1 => es[k].y = es[k - 1].y - Pt(20)
                    /\ p > 1 =>
                        /\ pdf[p][1].op = "setFont" /\ pdf[p][1].font = ListFont
                        /\ es[1].y = height - margin
            /\ LET all == EntriesFrom(1)
               IN  /\ Len(all) = n
                   /\ \A i \in 1..n :
                        all[i].text = FormatEntry(corrections[i][1], corrections[i][2])
            /\ LET ph == SelectSeq(pdf[1], LAMBDA o : o.part = "placeholder")
               IN  Len(ph) = IF n = 0 THEN 1 ELSE 0

\* A list that fills the first page and the second and goes on a third.
C5_Witness ==
    /\ pc = "pdf_done"
    /\ Len(corrections) = 64
    /\ Len(pdf) = 3
    /\ Len(EntriesOn(1)) = 26
    /\ Len(EntriesOn(2)) = 37
    /\ Len(EntriesOn(3)) = 1

-----------------------------------------------------------------------------
(* Properties of the run-button handler *)

N == Len(uploaded_files)

\* The first place of `tokens` at which the surface form k is flagged.
FirstFlagged(k) ==
    CHOOSE i \in Flagged :
        /\ tokens[i].surface = k
        /\ \A j \in Flagged : tokens[j].surface = k => i <= j

\* C4: the CSV of a document is the header row, one row [key, value] per entry
\* of corrections in the order in which the surface forms were first flagged,
\* a blank row, the total_words row and the error_count row:
\* len(corrections) + 4 rows.
C4_CsvRows ==
    pc = "make_pdf" /\ zipf # <<>> =>
        LET rows == zipf[Len(zipf)].body
            n    == Len(corrections)
        IN  /\ Len(rows) = n + 4
            /\ rows[1] = <<"misspelled word", "suggested correction">>
            /\ \A j \in 1..n : rows[1 + j] = <<corrections[j][1], corrections[j][2]>>
            /\ Keys(corrections) = {tokens[i].surface : i \in Flagged}
            /\ \A j, k \in 1..n :
                j < k => FirstFlagged(corrections[j][1]) < FirstFlagged(corrections[k][1])
            /\ rows[n + 2] = <<>>
            /\ rows[n + 3] = <<"total words", total_words>>
            /\ rows[n + 4] = <<"error words", error_count>>

\* "Teh qick teh Teh OK ok" with all three words unknown: three correction
\* rows, "Teh" first although it was flagged last too, and an error count of 4.
C4_Witness ==
    /\ pc = "make_pdf"
    /\ zipf # <<>>
    /\ Len(zipf[Len(zipf)].body) = 7
    /\ corrections[1][1] = <<"T", "e", "h">>
    /\ corrections[2][1] = qick
    /\ corrections[3][1] = teh
    /\ error_count = 4

Shown(e) == \E i \in DOMAIN ui : ui[i] = e

\* C6: a press of the button with nothing uploaded only shows the warning: no
\* oracle is built, nothing is decoded, analyzed or written, no archive is
\* offered; and an archive is offered only when a document was supplied.
C6_EmptyRunOnlyWarns ==
    /\ (pc # "idle" /\ N = 0) =>
            /\ pc = "end"
            /\ ui = <<"warning">>
            /\ spell = NoSpell
            /\ zipf = <<>> /\ progress = <<>> /\ idx = 0
            /\ FunctionIdle
            /\ PdfIdle
    /\ Shown("warning") => N = 0
    /\ Shown("download") => N >= 1

C6_Witness == pc = "end" /\ N = 0 /\ ui = <<"warning">>

\* C7: once the oracle has failed (when it is built, or at the k-th document)
\* the run is over: nothing more is processed, and neither the success notice
\* nor the archive is shown, whatever the archive already holds; the notice
\* and the archive are shown only after all N documents went through.
C7_OracleFailureIsFatal ==
    /\ Shown("exception") =>
            /\ pc = "end"
            /\ ~ENABLED Next
            /\ ~Shown("download")
            /\ ~Shown("success")
    /\ (Shown("download") \/ Shown("success")) =>
            /\ ~Shown("exception")
            /\ idx = N
            /\ Len(zipf) = 2 * N
            /\ Len(progress) = N + 1

\* The oracle fails at the second document: the first one's two entries are
\* in the archive, and it is not offered.
C7_Witness ==
    /\ Shown("exception")
    /\ Len(zipf) = 2
    /\ idx = 1
    /\ ~Shown("download")

\* The archive entries document i has once it is done.
CsvOf(i) == zipf[2 * i - 1]
PdfOf(i) == zipf[2 * i]

InLoopBody ==
    pc \in {"analyze", "count", "csv", "make_pdf", "pdf_empty", "pdf_loop",
            "pdf_save", "pdf_done", "progress"}

=============================================================================
